---- MODULE Spec2Model ----
(***************************************************************************)
(* The Kaki lexer (src/src/compiler/lexer.rs) as a state machine.          *)
(*                                                                         *)
(* A source is held as the sequence of its extended grapheme clusters, as  *)
(* `source.graphemes(true)` yields them; a grapheme is a string, and its   *)
(* UTF-8 encoding (Utf8) gives the byte offsets the lexer slices with.     *)
(* Every `&mut self` method is an operator from the lexer record to a      *)
(* record [self, ret, div]: the lexer afterwards, the returned value, and  *)
(* whether the call fails to return (a loop that never advances).          *)
(*                                                                         *)
(* The pure functions of token.rs and util/text.rs are operators; a        *)
(* specification that applies them holds the argument in `subject` and the *)
(* applications made so far, each with its result, in `verdicts`.          *)
(*                                                                         *)
(* The scanning primitives are also stepped one call at a time (SpecPrims, *)
(* `verdicts` holding the last call) and lex_next one production at a time *)
(* (SpecProductions, `subject` numbering the production tried next).       *)
(* SpecPair runs two lexers over one source, `lexer`, `outputs` and `pc`   *)
(* holding one value for each.                                             *)
(***************************************************************************)
EXTENDS Naturals, Sequences, FiniteSets

VARIABLES lexer, outputs, pc, subject, verdicts

vars == <<lexer, outputs, pc, subject, verdicts>>

(***************************************************************************)
(* Bounds of the model.                                                    *)
(***************************************************************************)
MaxLen == 3
MaxOpLen == 3
MaxWordLen == 4
MaxStrLen == 8
MaxErrLen == 4
MaxLineLen == 4
MaxPrimLen == 3
MaxProdLen == 3
MaxSpaceLen == 4
MaxPairLen == 3

\* The longest source of the specification of numbers, in graphemes.
MaxNumLen == 5

\* The longest source of the specification of outputs of every kind, in
\* graphemes, the mixed source apart.
MaxProgressLen == 4

(***************************************************************************)
(* Graphemes and their UTF-8 encoding.                                     *)
(***************************************************************************)
\* Option<&str>::None, the end of the grapheme iterator.
None == ""

\* Option<Result<Token, LexerError>>::None.
NoToken == [res |-> "None"]

\* The graphemes the general specification draws its sources from: blanks,
\* a lone CR, the CR LF cluster, letters, digits, delimiters, a trailer and a
\* two-byte grapheme no production knows.
Alphabet ==
    {" ", "\r", "\r\n", "#", "[", "a", "A", "0", "b", "\"", "?", "§"}

\* The graphemes of the operators that are a prefix of a longer operator.
OpAlphabet == {"&", "@", "{", "!", "=", ":", ">", "<", "|", "?", "/", "*"}

\* The graphemes of names and numbers: letters of both cases (`e` is also
\* the exponent mark), the underscore, a digit, the two trailers, a blank and
\* the dot.
WordAlphabet == {"a", "A", "_", "0", "!", "?", " ", ".", "e"}

\* The graphemes of the string delimiters, and one of content.
StrAlphabet == {"@", "\"", "x"}

\* The graphemes of the constructs that can be cut short: the delimiters of
\* a block comment, the quote, a digit, a radix letter, the exponent mark and
\* its sign, and a letter.
ErrAlphabet == {"#", "[", "]", "\"", "0", "b", "e", "-", "a"}

\* The graphemes of line breaks: LF, a lone CR, the CR LF cluster, and a
\* blank, `#` and a letter to stand between them.
LineAlphabet == {"\n", "\r", "\r\n", " ", "#", "a"}

\* The graphemes of numbers: the digit zero, a digit above the binary range,
\* the binary radix letter, the underscore, the exponent mark and a
\* grapheme no production knows.
NumAlphabet == {"0", "2", "b", "_", "e", "§"}

\* The printable ASCII characters U+0020 to U+005F, in code order.
AsciiLow ==
    << " ", "!", "\"", "#", "$", "%", "&", "'", "(", ")", "*", "+", ",",
       "-", ".", "/", "0", "1", "2", "3", "4", "5", "6", "7", "8", "9",
       ":", ";", "<", "=", ">", "?", "@", "A", "B", "C", "D", "E", "F",
       "G", "H", "I", "J", "K", "L", "M", "N", "O", "P", "Q", "R", "S",
       "T", "U", "V", "W", "X", "Y", "Z", "[", "\\", "]", "^", "_" >>

\* The printable ASCII characters U+0061 to U+007E, in code order.
AsciiHigh ==
    << "a", "b", "c", "d", "e", "f", "g", "h", "i", "j", "k", "l", "m",
       "n", "o", "p", "q", "r", "s", "t", "u", "v", "w", "x", "y", "z",
       "{", "|", "}", "~" >>

\* The graphemes the model knows the encoding of.
Graphemes ==
    {AsciiLow[i] : i \in 1..Len(AsciiLow)}
        \cup {AsciiHigh[i] : i \in 1..Len(AsciiHigh)}
        \cup {"\t", "\n", "\r", "\r\n", "§"}

\* The bytes of each grapheme in UTF-8.
Utf8Table ==
    [g \in Graphemes |->
        CASE g = "\t" -> <<9>>
          [] g = "\n" -> <<10>>
          [] g = "\r" -> <<13>>
          [] g = "\r\n" -> <<13, 10>>
          [] g = "§" -> <<194, 167>>
          [] \E i \in 1..Len(AsciiLow) : AsciiLow[i] = g ->
              <<31 + (CHOOSE i \in 1..Len(AsciiLow) : AsciiLow[i] = g)>>
          [] OTHER ->
              <<96 + (CHOOSE i \in 1..Len(AsciiHigh) : AsciiHigh[i] = g)>>]

Utf8(g) == Utf8Table[g]

\* The bytes of a sequence of graphemes: the `&str` they are the clusters of.
RECURSIVE Bytes(_)
Bytes(gs) ==
    IF gs = <<>> THEN <<>> ELSE Utf8(Head(gs)) \o Bytes(Tail(gs))

\* A sequence of graphemes is the segmentation of its own text: a lone CR
\* directly before a LF would be the single cluster CR LF.
Segmented(gs) ==
    \A i \in 1..(Len(gs) - 1) : ~(gs[i] = "\r" /\ gs[i + 1] = "\n")

BoundedSeqs(A, n) == UNION {[1..k -> A] : k \in 0..n}

(***************************************************************************)
(* Character classes.                                                      *)
(***************************************************************************)
is_lower(s) ==
    s \in {"a", "b", "c", "d", "e", "f", "g", "h", "i", "j", "k", "l", "m",
           "n", "o", "p", "q", "r", "s", "t", "u", "v", "w", "x", "y", "z"}

is_upper(s) ==
    s \in {"A", "B", "C", "D", "E", "F", "G", "H", "I", "J", "K", "L", "M",
           "N", "O", "P", "Q", "R", "S", "T", "U", "V", "W", "X", "Y", "Z"}

is_alpha(s) == is_lower(s) \/ is_upper(s) \/ s = "_"

is_digit(s) == s \in {"0", "1", "2", "3", "4", "5", "6", "7", "8", "9"}

is_alphanum(s) == is_alpha(s) \/ is_digit(s)

is_bin_digit(s) == s \in {"0", "1"}

is_oct_digit(s) == s \in {"0", "1", "2", "3", "4", "5", "6", "7"}

is_hex_digit(s) ==
    is_digit(s)
    \/ s \in {"a", "b", "c", "d", "e", "f", "A", "B", "C", "D", "E", "F"}

\* A predicate handed to take_while / consume_number, named by its tag.
Pred(pred, g) ==
    CASE pred = "is_underscore" -> g = "_"
      [] pred = "is_alphanum" -> is_alphanum(g)
      [] pred = "is_digit" -> is_digit(g)
      [] pred = "is_bin_digit" -> is_bin_digit(g)
      [] pred = "is_oct_digit" -> is_oct_digit(g)
      [] pred = "is_hex_digit" -> is_hex_digit(g)

(***************************************************************************)
(* The character classes of src/src/util/text.rs, a second copy of the     *)
(* lexer's.                                                                *)
(***************************************************************************)
text_is_lower(s) ==
    s \in {"a", "b", "c", "d", "e", "f", "g", "h", "i", "j", "k", "l", "m",
           "n", "o", "p", "q", "r", "s", "t", "u", "v", "w", "x", "y", "z"}

text_is_upper(s) ==
    s \in {"A", "B", "C", "D", "E", "F", "G", "H", "I", "J", "K", "L", "M",
           "N", "O", "P", "Q", "R", "S", "T", "U", "V", "W", "X", "Y", "Z"}

text_is_alpha(s) == text_is_lower(s) \/ text_is_upper(s) \/ s = "_"

text_is_digit(s) == s \in {"0", "1", "2", "3", "4", "5", "6", "7", "8", "9"}

text_is_alphanum(s) == text_is_alpha(s) \/ text_is_digit(s)

text_is_bin_digit(s) == s \in {"0", "1"}

text_is_oct_digit(s) == s \in {"0", "1", "2", "3", "4", "5", "6", "7"}

\* is_hex_digit without the uppercase letters.
text_is_hex_digit_lower(s) ==
    text_is_digit(s) \/ s \in {"a", "b", "c", "d", "e", "f"}

text_is_hex_digit(s) ==
    text_is_digit(s)
    \/ s \in {"a", "b", "c", "d", "e", "f", "A", "B", "C", "D", "E", "F"}

(***************************************************************************)
(* Token kinds and their classifiers (src/src/compiler/token.rs).          *)
(***************************************************************************)
\* The variants of `enum TokenKind`, in the order of their declaration.
TokenKind ==
    {"Space", "NewLine", "Lower", "Upper", "Under", "Anon", "Integer",
     "Float", "StringSingle", "StringMulti", "StringSmart", "Amp", "AmpAmp",
     "At", "AtAt", "AtBraceL", "Bang", "BangEq", "BracketL", "BracketR",
     "BraceL", "BraceR", "BackSlash", "Caret", "Colon", "ColonColon",
     "Comma", "Dot", "Eq", "EqEq", "Gt", "GtEq", "GtGt", "Lt", "LtEq",
     "LtLt", "Minus", "ParenL", "ParenR", "Percent", "Pipe", "PipePipe",
     "Plus", "Question", "QuestionEq", "Slash", "SlashSlash", "Star",
     "StarStar", "Tilde"}

\* `match self { Space | NewLine => true, _ => false }`.
is_whitespace(self) == self \in {"Space", "NewLine"}

\* `match self { Lower | Upper | Under | Anon => true, _ => false }`.
is_word(self) == self \in {"Lower", "Upper", "Under", "Anon"}

\* The arms of is_op_punc, Space and NewLine among them; every other kind
\* takes the `_ => false` arm.
is_op_punc(self) ==
    self \in
        {"Space", "NewLine", "Amp", "AmpAmp", "At", "AtAt", "AtBraceL",
         "Bang", "BangEq", "BracketL", "BracketR", "BraceL", "BraceR",
         "BackSlash", "Caret", "Colon", "ColonColon", "Comma", "Dot", "Eq",
         "EqEq", "Gt", "GtEq", "GtGt", "Lt", "LtEq", "LtLt", "Minus",
         "ParenL", "ParenR", "Percent", "Pipe", "PipePipe", "Plus",
         "Question", "QuestionEq", "Slash", "SlashSlash", "Star", "StarStar",
         "Tilde"}

is_boundary(self) == is_whitespace(self) \/ is_op_punc(self)

(***************************************************************************)
(* The lexer and its scanning primitives.                                  *)
(***************************************************************************)
\* Lexer::new: `graphemes` is the number of clusters the iterator has yielded.
new(source) ==
    [prev |-> None, index |-> 0, index_bytes |-> 0, mark |-> 0,
     mark_bytes |-> 0, source |-> source, graphemes |-> 0]

\* A method's outcome: it returned ret, leaving the lexer as self.
Ret(self, ret) == [self |-> self, ret |-> ret, div |-> FALSE]

\* A method's outcome: it never returns.
Div(self) == [self |-> self, ret |-> NoToken, div |-> TRUE]

\* `return_some!(e)` is `if e.is_some() { return e; }`: the call e is made,
\* and when it yields Some it is made again, from where the first left the
\* lexer, and what the second yields is returned, None included.  Returned:
\* the enclosing function returns r (or never returns, as r does not).
Returned(r) ==
    [self |-> r.self, ret |-> r.ret, div |-> r.div, returned |-> TRUE]

\* `return_some!(e)`, e having yielded None: control goes on after the macro.
FellThrough(r) ==
    [self |-> r.self, ret |-> NoToken, div |-> FALSE, returned |-> FALSE]

Span(start, end) == [start |-> start, end |-> end]

\* mark without latching the grapheme index.
mark_bytes_only(self) == [self EXCEPT !.mark_bytes = self.index_bytes]

\* mark latching nothing.
mark_nothing(self) == self

mark(self) ==
    [self EXCEPT !.mark = self.index, !.mark_bytes = self.index_bytes]

\* Graphemes::next on the lexer's iterator (or on a clone's).
graphemes_next(self) ==
    IF self.graphemes < Len(self.source)
    THEN self.source[self.graphemes + 1]
    ELSE None

\* next counting one byte for every grapheme.
next_one_byte(self) ==
    LET g == graphemes_next(self)
    IN  IF g # None
        THEN Ret([self EXCEPT !.graphemes = self.graphemes + 1,
                              !.index = self.index + 1,
                              !.index_bytes = self.index_bytes + 1],
                 g)
        ELSE Ret(self, None)

\* next counting a grapheme even when the iterator has none left.
next_past_end(self) ==
    LET g == graphemes_next(self)
    IN  IF g # None
        THEN Ret([self EXCEPT !.graphemes = self.graphemes + 1,
                              !.index = self.index + 1,
                              !.index_bytes = self.index_bytes + Len(Utf8(g))],
                 g)
        ELSE Ret([self EXCEPT !.index = self.index + 1], None)

next(self) ==
    LET g == graphemes_next(self)
    IN  IF g # None
        THEN Ret([self EXCEPT !.graphemes = self.graphemes + 1,
                              !.index = self.index + 1,
                              !.index_bytes = self.index_bytes + Len(Utf8(g))],
                 g)
        ELSE Ret(self, None)

peek(self) == graphemes_next(self)

\* `while let Some(g) = self.peek() { if !pred(g) { break; } count += 1; }`:
\* nothing in the loop advances, so it returns (with 0) only when it breaks
\* or finds the end of input at once; otherwise it spins on the same
\* grapheme (a usize count has 2^64 rounds before it could overflow).
take_while(self, pred) ==
    IF peek(self) # None /\ Pred(pred, peek(self))
    THEN [self |-> self, ret |-> 0, div |-> TRUE]
    ELSE [self |-> self, ret |-> 0, div |-> FALSE]

text(self) ==
    SubSeq(Bytes(self.source), self.mark_bytes + 1, self.index_bytes)

span(self) == Span(self.mark, self.index)

extract(self, kind) ==
    [res |-> "Ok", text |-> text(self), kind |-> kind, span |-> span(self)]

\* error leaving the token kind out.
error_without_token_kind(self, kind, token_kind) ==
    [res |-> "Err", text |-> text(self), kind |-> kind, span |-> span(self),
     token_kind |-> None]

error(self, kind, token_kind) ==
    [res |-> "Err", text |-> text(self), kind |-> kind, span |-> span(self),
     token_kind |-> token_kind]

\* The first loop of expect: the pattern against a clone's iterator.
RECURSIVE expect_matches(_, _, _)
expect_matches(lexer_, pattern, k) ==
    IF k > Len(pattern) THEN TRUE
    ELSE LET g2 == graphemes_next(lexer_)
         IN  IF g2 = None \/ pattern[k] # g2 THEN FALSE
             ELSE expect_matches(
                      [lexer_ EXCEPT !.graphemes = lexer_.graphemes + 1],
                      pattern, k + 1)

\* The second loop of expect: `for _ in 0..count { self.next(); }`.
RECURSIVE advance(_, _)
advance(self, count) ==
    IF count = 0 THEN self ELSE advance(next(self).self, count - 1)

\* expect keeping, on a mismatch, the graphemes that did match.
RECURSIVE expect_partial(_, _)
expect_partial(self, pattern) ==
    IF pattern = <<>> THEN Ret(self, TRUE)
    ELSE IF peek(self) = None \/ peek(self) # Head(pattern)
         THEN Ret(self, FALSE)
         ELSE expect_partial(next(self).self, Tail(pattern))

expect(self, pattern) ==
    IF expect_matches(self, pattern, 1)
    THEN Ret(advance(self, Len(pattern)), TRUE)
    ELSE Ret(self, FALSE)

RECURSIVE expect_one_from(_, _, _)
expect_one_from(self, pattern, k) ==
    IF k > Len(pattern) THEN Ret(self, FALSE)
    ELSE LET e == expect(self, <<pattern[k]>>)
         IN  IF e.ret THEN e ELSE expect_one_from(e.self, pattern, k + 1)

expect_one(self, pattern) == expect_one_from(self, pattern, 1)

lex_exact(self, pattern, kind) ==
    LET e == expect(self, pattern)
    IN  IF e.ret THEN Ret(e.self, extract(e.self, kind))
        ELSE Ret(e.self, NoToken)

\* `if $e.is_some() { return $e; }` for a lex_exact call, r being what the
\* first call yielded: the call is made again and its value returned.
return_some_is_some(r, pattern, kind) ==
    IF r.ret.res # "None" THEN Returned(lex_exact(r.self, pattern, kind))
    ELSE FellThrough(r)

\* `return_some!(self.lex_exact(pattern, kind))`.
return_some_lex_exact(self, pattern, kind) ==
    return_some_is_some(lex_exact(self, pattern, kind), pattern, kind)

(***************************************************************************)
(* Productions.                                                            *)
(***************************************************************************)
\* The loop of lex_space; yields the lexer and the `seen` flag.
RECURSIVE lex_space_loop(_, _)
lex_space_loop(self, seen) ==
    LET g == peek(self)
    IN  IF g # None /\ (g = " " \/ g = "\t")
        THEN lex_space_loop(next(self).self, TRUE)
        ELSE [self |-> self, seen |-> seen]

lex_space(self) ==
    LET l == lex_space_loop(self, FALSE)
    IN  IF l.seen THEN Ret(l.self, extract(l.self, "Space"))
        ELSE Ret(l.self, NoToken)

\* The end of lex_newline, m being the outcome of its second `return_some!`.
lex_newline_none(m) ==
    IF m.returned THEN Ret(m.self, m.ret) ELSE Ret(m.self, NoToken)

\* lex_newline after its first `return_some!`, m being its outcome.
lex_newline_crlf(m) ==
    IF m.returned THEN Ret(m.self, m.ret)
    ELSE lex_newline_none(
             return_some_lex_exact(m.self, <<"\r\n">>, "NewLine"))

\* Two `return_some!(self.lex_exact(..))` and then None.
lex_newline(self) ==
    lex_newline_crlf(return_some_lex_exact(self, <<"\n">>, "NewLine"))

\* The loop of a block comment; yields the lexer and the depth reached.
RECURSIVE lex_comment_block_loop(_, _)
lex_comment_block_loop(self, depth) ==
    IF peek(self) = None THEN [self |-> self, depth |-> depth]
    ELSE LET e == expect(self, <<"]", "]">>)
             self2 == IF e.ret THEN e.self ELSE next(e.self).self
             depth2 == IF e.ret THEN depth - 1 ELSE depth
         IN  IF depth2 = 0 THEN [self |-> self2, depth |-> depth2]
             ELSE lex_comment_block_loop(self2, depth2)

\* The loop of a line comment tests a clone with lex_newline and never
\* advances the lexer itself: it ends at the end of input or where the
\* clone's lex_newline yields a token, and otherwise never.
lex_comment_line_loop(self) ==
    IF peek(self) = None THEN Ret(self, NoToken)
    ELSE LET n == lex_newline(self)
         IN  IF n.ret.res = "Ok" THEN Ret(self, NoToken) ELSE Div(self)

lex_comment(self) ==
    LET b == expect(self, <<"#", "[", "[">>)
        h == expect(b.self, <<"#">>)
    IN  IF b.ret
        THEN LET l == lex_comment_block_loop(b.self, 1)
             IN  IF l.depth = 0
                 THEN Ret(l.self, extract(l.self, "CommentBlock"))
                 ELSE Ret(l.self, error(l.self, "Incomplete", "CommentBlock"))
        ELSE IF h.ret
        THEN LET l == lex_comment_line_loop(h.self)
             IN  IF l.div THEN l
                 ELSE Ret(l.self, extract(l.self, "CommentLine"))
        ELSE Ret(h.self, NoToken)

\* The loop of a lowercase name; yields the lexer and the `valid` flag.
RECURSIVE lex_name_lower_loop(_, _)
lex_name_lower_loop(self, valid) ==
    LET g2 == peek(self)
    IN  IF g2 = None \/ ~is_alphanum(g2) THEN [self |-> self, valid |-> valid]
        ELSE lex_name_lower_loop(next(self).self,
                                 IF is_upper(g2) THEN FALSE ELSE valid)

\* The loop of an anonymous name; yields the lexer and the `valid` flag.
RECURSIVE lex_name_anon_loop(_, _)
lex_name_anon_loop(self, valid) ==
    LET g2 == peek(self)
    IN  IF g2 = None \/ ~is_alphanum(g2) THEN [self |-> self, valid |-> valid]
        ELSE lex_name_anon_loop(next(self).self,
                                IF is_alpha(g2) THEN FALSE ELSE valid)

lex_name(self) ==
    IF peek(self) = None \/ ~is_alpha(peek(self)) THEN Ret(self, NoToken)
    ELSE
    LET t == take_while(self, "is_underscore")
        count == t.ret
        s == t.self
        g == peek(s)
    IN  IF t.div THEN Div(s)
        ELSE IF g # None /\ is_lower(g)
        THEN LET l == lex_name_lower_loop(s, TRUE)
                 e == expect_one(l.self, <<"!", "?">>)
             IN  IF l.valid THEN Ret(e.self, extract(e.self, "NameLower"))
                 ELSE Ret(e.self, error(e.self, "Invalid", "NameLower"))
        ELSE IF g # None /\ is_upper(g)
        THEN LET w == take_while(s, "is_alphanum")
                 e == expect_one(w.self, <<"!", "?">>)
             IN  IF w.div THEN Div(w.self)
                 ELSE IF ~e.ret THEN Ret(e.self, extract(e.self, "NameUpper"))
                 ELSE Ret(e.self, error(e.self, "Invalid", "NameUpper"))
        ELSE IF g # None /\ is_digit(g)
        THEN LET l == lex_name_anon_loop(s, TRUE)
                 e == expect_one(l.self, <<"!", "?">>)
                 valid == IF e.ret THEN FALSE ELSE l.valid
             IN  IF valid THEN Ret(e.self, extract(e.self, "NameAnon"))
                 ELSE Ret(e.self, error(e.self, "Invalid", "NameAnon"))
        ELSE IF count = 1 THEN Ret(s, extract(s, "NameUnderscore"))
        ELSE Ret(s, error(s, "Invalid", "NameUnderscore"))

\* The underscore loop of consume_number.
RECURSIVE consume_number_loop(_, _, _)
consume_number_loop(self, count, pred) ==
    IF peek(self) # "_" THEN Ret(self, count)
    ELSE LET s1 == next(self).self
             t == take_while(s1, pred)
         IN  IF t.div THEN Div(t.self)
             ELSE consume_number_loop(t.self, count + 1 + t.ret, pred)

consume_number(self, underscore, pred) ==
    LET g2 == peek(self)
    IN  IF g2 # None /\ ~Pred(pred, g2) THEN Ret(self, 0)
        ELSE
        LET s1 == IF g2 # None THEN next(self).self ELSE self
            count1 == IF g2 # None THEN 1 ELSE 0
            t == take_while(s1, pred)
        IN  IF t.div THEN Div(t.self)
            ELSE IF underscore
            THEN consume_number_loop(t.self, count1 + t.ret, pred)
            ELSE Ret(t.self, count1 + t.ret)

\* `0b`, `0o`, `0x`: the radix letter is taken, then the body.
lex_number_radix(self, pred, kind) ==
    LET s1 == next(self).self
        c == consume_number(s1, TRUE, pred)
    IN  IF c.div THEN Div(c.self)
        ELSE IF c.ret > 0 THEN Ret(c.self, extract(c.self, kind))
        ELSE Ret(c.self, error(c.self, "Incomplete", kind))

\* The exponent, and the final extract, of lex_number.
lex_number_exponent(self, kind) ==
    IF peek(self) = "e"
    THEN LET s1 == next(self).self
             s2 == expect(s1, <<"-">>).self
             c == consume_number(s2, FALSE, "is_digit")
         IN  IF c.div THEN Div(c.self)
             ELSE IF c.ret = 0
             THEN Ret(c.self, error(c.self, "Incomplete", "Float"))
             ELSE Ret(c.self, extract(c.self, "Float"))
    ELSE Ret(self, extract(self, kind))

\* The decimal path of lex_number: the digits, the fraction, the exponent.
\* The fraction peeks the same grapheme twice, so the grapheme it tests for
\* a digit is the `.` itself.
lex_number_decimal(self) ==
    LET c == consume_number(self, TRUE, "is_digit")
        s == c.self
        g == peek(s)
        fraction == peek(s) = "." /\ g # None /\ is_digit(g)
        f == IF fraction THEN consume_number(s, TRUE, "is_digit")
             ELSE Ret(s, 0)
        kind == IF fraction THEN "Float" ELSE "IntDec"
    IN  IF c.div THEN Div(c.self)
        ELSE IF f.div THEN Div(f.self)
        ELSE lex_number_exponent(f.self, kind)

lex_number(self) ==
    IF peek(self) = None \/ ~is_digit(peek(self)) THEN Ret(self, NoToken)
    ELSE
    LET first_is_zero == peek(self) = "0"
        s == next(self).self
        g == peek(s)
    IN  IF first_is_zero /\ g = "b"
        THEN lex_number_radix(s, "is_bin_digit", "IntBin")
        ELSE IF first_is_zero /\ g = "o"
        THEN lex_number_radix(s, "is_oct_digit", "IntOct")
        ELSE IF first_is_zero /\ g = "x"
        THEN lex_number_radix(s, "is_hex_digit", "IntHex")
        ELSE lex_number_decimal(s)

\* The loop of lex_string; yields the lexer and the `seen_closing` flag.
RECURSIVE lex_string_loop(_, _)
lex_string_loop(self, kind) ==
    LET g == peek(self)
        esc == expect(self, <<"\\", "\"">>)
        triple == expect(self, <<"\"", "\"", "\"">>)
        single == expect(self, <<"\"">>)
    IN  IF g = None THEN [self |-> self, seen_closing |-> FALSE]
        ELSE IF g = "\"" /\ esc.ret THEN lex_string_loop(esc.self, kind)
        ELSE IF kind \in {"StringSmart", "StringMulti"}
        THEN IF triple.ret THEN [self |-> triple.self, seen_closing |-> TRUE]
             ELSE lex_string_loop(next(triple.self).self, kind)
        ELSE IF single.ret THEN [self |-> single.self, seen_closing |-> TRUE]
        ELSE lex_string_loop(next(single.self).self, kind)

lex_string(self) ==
    LET smart == expect(self, <<"@", "\"", "\"", "\"">>)
        multi == expect(smart.self, <<"\"", "\"", "\"">>)
        single == expect(multi.self, <<"\"">>)
        kind == IF smart.ret THEN "StringSmart"
                ELSE IF multi.ret THEN "StringMulti"
                ELSE "StringSingle"
        opened == IF smart.ret THEN smart.self
                  ELSE IF multi.ret THEN multi.self
                  ELSE single.self
        l == lex_string_loop(opened, kind)
    IN  IF ~smart.ret /\ ~multi.ret /\ ~single.ret
        THEN Ret(single.self, NoToken)
        ELSE IF ~l.seen_closing
        THEN Ret(l.self, error(l.self, "Incomplete", kind))
        ELSE Ret(l.self, extract(l.self, kind))

(***************************************************************************)
(* The dispatch.                                                           *)
(***************************************************************************)
\* The lex_exact calls of lex_next, in their order.
ExactTable ==
    << <<(<<"&", "&">>), "AmpAmp">>, <<(<<"&">>), "Amp">>,
       <<(<<"@", "@">>), "AtAt">>, <<(<<"@", "{">>), "AtBraceL">>,
       <<(<<"@">>), "At">>, <<(<<"!", "=">>), "BangEq">>,
       <<(<<"!">>), "Bang">>, <<(<<"[">>), "BracketL">>,
       <<(<<"]">>), "BracketR">>, <<(<<"{">>), "BraceL">>,
       <<(<<"}">>), "BraceR">>, <<(<<"\\">>), "BackSlash">>,
       <<(<<"^">>), "Caret">>, <<(<<":", ":">>), "ColonColon">>,
       <<(<<":">>), "Colon">>, <<(<<",">>), "Comma">>,
       <<(<<".">>), "Dot">>, <<(<<"=", "=">>), "EqEq">>,
       <<(<<"=">>), "Eq">>, <<(<<">", "=">>), "GtEq">>,
       <<(<<">", ">">>), "GtGt">>, <<(<<">">>), "Gt">>,
       <<(<<"<", "=", ">">>), "LtEqGt">>, <<(<<"<", "=">>), "LtEq">>,
       <<(<<"<", "<">>), "LtLt">>, <<(<<"<">>), "Lt">>,
       <<(<<"-">>), "Minus">>, <<(<<"(">>), "ParenL">>,
       <<(<<")">>), "ParenR">>, <<(<<"%">>), "Percent">>,
       <<(<<"|", "|">>), "PipePipe">>, <<(<<"|">>), "Pipe">>,
       <<(<<"+">>), "Plus">>, <<(<<"?", "=">>), "QuestionEq">>,
       <<(<<"?">>), "Question">>, <<(<<";">>), "Semicolon">>,
       <<(<<"/", "/">>), "SlashSlash">>, <<(<<"/">>), "Slash">>,
       <<(<<"*", "*">>), "StarStar">>, <<(<<"*">>), "Star">>,
       <<(<<"~">>), "Tilde">> >>

RECURSIVE lex_exact_from(_, _)

\* After the `return_some!` of entry k, m being its outcome: lex_next
\* returns, or goes on to the next entry.
return_some_exact(m, k) ==
    IF m.returned THEN m ELSE lex_exact_from(m.self, k + 1)

\* `return_some!(self.lex_exact(..))` from entry k of the table on.
lex_exact_from(self, k) ==
    IF k > Len(ExactTable) THEN FellThrough(Ret(self, NoToken))
    ELSE return_some_exact(
             return_some_lex_exact(self, ExactTable[k][1], ExactTable[k][2]),
             k)

\* The k-th production that lex_next tries before the operators.
lex_production(self, k) ==
    CASE k = 1 -> lex_space(self)
      [] k = 2 -> lex_newline(self)
      [] k = 3 -> lex_comment(self)
      [] k = 4 -> lex_name(self)
      [] k = 5 -> lex_number(self)
      [] k = 6 -> lex_string(self)

\* `return_some!(self.lex_..())` for production k, r being what the first
\* call yielded.
return_some_lex_production(r, k) ==
    IF r.div THEN Returned(r)
    ELSE IF r.ret.res # "None" THEN Returned(lex_production(r.self, k))
    ELSE FellThrough(r)

RECURSIVE lex_productions_from(_, _)

\* After the `return_some!` of production k, m being its outcome: lex_next
\* returns (or never does), or goes on from where the production left the
\* lexer.
return_some(m, k) ==
    IF m.returned THEN m ELSE lex_productions_from(m.self, k + 1)

lex_productions_from(self, k) ==
    IF k > 6 THEN lex_exact_from(self, 1)
    ELSE return_some(
             return_some_lex_production(lex_production(self, k), k), k)

\* The productions of lex_next in their order, each starting where the one
\* before it left the lexer.
lex_productions(self) == lex_productions_from(self, 1)

RECURSIVE lex_next(_, _)

RECURSIVE lex_next_dispatch(_, _)

RECURSIVE lex_next_coalesce(_, _)

\* The recursive call's error: one grapheme is taken.
lex_next_unknown(self) == Ret(self, error(self, "UnknownSequence", None))

\* One round of the coalescing loop without its `self.next()`.
lex_next_coalesce_round_stay(self, r) ==
    IF r.div THEN Div(self)
    ELSE IF r.ret.res = "Err" /\ r.ret.kind = "UnknownSequence"
    THEN lex_next_coalesce(self, r.self)
    ELSE Ret(self, error(self, "UnknownSequence", None))

\* One round of the coalescing loop, r being what the clone's call yielded.
lex_next_coalesce_round(self, r) ==
    IF r.div THEN Div(self)
    ELSE IF r.ret.res = "Err" /\ r.ret.kind = "UnknownSequence"
    THEN lex_next_coalesce(next(self).self, r.self)
    ELSE Ret(self, error(self, "UnknownSequence", None))

\* The coalescing loop: `lexer_` is the clone, stepped by recursive calls,
\* and self advances one grapheme for each UnknownSequence the clone yields.
lex_next_coalesce(self, lexer_) ==
    lex_next_coalesce_round(self, lex_next(lexer_, TRUE))

\* lex_next after the productions, p being what they yielded.
lex_next_no_match(p, recursive) ==
    IF p.returned THEN [self |-> p.self, ret |-> p.ret, div |-> p.div]
    ELSE IF recursive THEN lex_next_unknown(next(p.self).self)
    ELSE lex_next_coalesce(p.self, p.self)

\* lex_next from `self.mark()` on.
lex_next_dispatch(self, recursive) ==
    lex_next_no_match(lex_productions(mark(self)), recursive)

lex_next(self, recursive) ==
    IF peek(self) = None THEN Ret(self, NoToken)
    ELSE lex_next_dispatch(self, recursive)

(***************************************************************************)
(* The state machine: one lexer, stepped by its iterator.                  *)
(***************************************************************************)
\* The inputs of the concrete scenarios of the specification's section 8,
\* each as its grapheme clusters.
Scenarios ==
    {<<"f", "o", "o", " ", "b", "a", "r">>,
     <<"F", "o", "o", "?">>,
     <<"0", "x", "F", "F", "_", "0", "0">>,
     <<"1", ".", "5", "e", "-", "3">>,
     <<"#", "[", "[", " ", "a", " ", "#", "[", "[", " ", "b", " ", "]",
       "]", " ", "c", " ", "]", "]">>,
     <<"\"", "a", "\\", "\"", "b", "\"">>,
     <<"<", "<", "=">>,
     <<"<", "=", ">">>,
     <<"\"", "\"", "\"", "x", "\"", "\"", "\"">>,
     <<"0", "b">>,
     <<"§", "§", "§", "a">>,
     <<"_", "_">>}

\* The sources of the general specification: every segmented sequence over
\* the alphabet up to the bound, and the scenarios.
Sources ==
    {gs \in BoundedSeqs(Alphabet, MaxLen) : Segmented(gs)} \cup Scenarios

\* The sources of the operator specification.
OpSources == BoundedSeqs(OpAlphabet, MaxOpLen)

\* The sources of the specification of names and numbers.
WordSources == BoundedSeqs(WordAlphabet, MaxWordLen) \cup Scenarios

\* The sources of the specification of strings.
StrSources == BoundedSeqs(StrAlphabet, MaxStrLen)

\* The sources of the specification of cut-short constructs.
ErrSources == BoundedSeqs(ErrAlphabet, MaxErrLen) \cup Scenarios

\* The sources of the specification of line breaks.
LineSources == {gs \in BoundedSeqs(LineAlphabet, MaxLineLen) : Segmented(gs)}

\* The sources of the specification of numbers.
NumSources == BoundedSeqs(NumAlphabet, MaxNumLen)

\* The graphemes of outputs of every kind: a grapheme no production knows,
\* letters of both cases and a trailer for names that are Invalid, the
\* digits, radix letter and exponent mark of numbers that are Incomplete,
\* and an operator.
ProgressAlphabet == {"§", "a", "A", "!", "0", "b", "2", "e", "["}

\* A source whose stream holds a token, an unknown sequence of two
\* graphemes, an Invalid error, an unknown sequence of one grapheme and an
\* Incomplete error.
MixedSource ==
    <<"[", "[", "§", "§", "a", "!", "a", "A", "§", "0", "b", "2", "e">>

\* The sources of the specification of outputs of every kind.
ProgressSources ==
    BoundedSeqs(ProgressAlphabet, MaxProgressLen) \cup {MixedSource}

\* A lexer specification applies no pure function apart.
Idle == subject = None /\ verdicts = {}

Init ==
    /\ \E source \in Sources : lexer = new(source)
    /\ outputs = <<>>
    /\ pc = "ready"
    /\ Idle

InitOps ==
    /\ \E source \in OpSources : lexer = new(source)
    /\ outputs = <<>>
    /\ pc = "ready"
    /\ Idle

InitWords ==
    /\ \E source \in WordSources : lexer = new(source)
    /\ outputs = <<>>
    /\ pc = "ready"
    /\ Idle

InitStrings ==
    /\ \E source \in StrSources : lexer = new(source)
    /\ outputs = <<>>
    /\ pc = "ready"
    /\ Idle

InitErrors ==
    /\ \E source \in ErrSources : lexer = new(source)
    /\ outputs = <<>>
    /\ pc = "ready"
    /\ Idle

InitLines ==
    /\ \E source \in LineSources : lexer = new(source)
    /\ outputs = <<>>
    /\ pc = "ready"
    /\ Idle

InitNumbers ==
    /\ \E source \in NumSources : lexer = new(source)
    /\ outputs = <<>>
    /\ pc = "ready"
    /\ Idle

InitProgress ==
    /\ \E source \in ProgressSources : lexer = new(source)
    /\ outputs = <<>>
    /\ pc = "ready"
    /\ Idle

\* The kinds of the lex_exact calls of lex_next.
ExactKinds == {ExactTable[k][2] : k \in 1..Len(ExactTable)}

\* The kinds a classifier can be asked about: the receiver is a
\* `&TokenKind`, so they are the variants token.rs declares and no other.
KindSubjects == TokenKind

InitKinds ==
    /\ lexer = new(<<>>)
    /\ outputs = <<>>
    /\ pc = "ready"
    /\ subject \in KindSubjects
    /\ verdicts = {}

\* Edition::latest (src/src/edition.rs).
latest == "Edition1"

\* LexerEdition1::new: the edition-1 lexer wraps a base lexer, of which the
\* edition-1 code uses the source only.
LexerEdition1_new(source) == [base |-> [source |-> source]]

InitEdition1 ==
    /\ \E source \in Sources : lexer = LexerEdition1_new(source)
    /\ outputs = <<>>
    /\ pc = "ready"
    /\ Idle

\* The graphemes a character class can be asked about: printable ASCII,
\* control characters, the two-character cluster CR LF and a non-ASCII
\* grapheme.
InitChars ==
    /\ lexer = new(<<>>)
    /\ outputs = <<>>
    /\ pc = "ready"
    /\ subject \in Graphemes
    /\ verdicts = {}

\* Iterator::next, i.e. next_token: a token or an error is appended to the
\* outputs, the end of the stream is reached, or the call never returns.
next_token ==
    /\ pc = "ready"
    /\ \E r \in {lex_next(lexer, FALSE)} :
           IF r.div
           THEN /\ pc' = "diverged"
                /\ UNCHANGED <<lexer, outputs>>
           ELSE /\ lexer' = r.self
                /\ outputs' = IF r.ret.res = "None" THEN outputs
                              ELSE Append(outputs, r.ret)
                /\ pc' = IF r.ret.res = "None" THEN "end" ELSE "ready"
    /\ UNCHANGED <<subject, verdicts>>

Next == next_token

\* A classifier is applied to the subject: its result joins the verdicts.
apply_is_whitespace ==
    /\ verdicts' = verdicts \cup
           {[fn |-> "is_whitespace", ret |-> is_whitespace(subject)]}
    /\ UNCHANGED <<lexer, outputs, pc, subject>>

apply_is_word ==
    /\ verdicts' = verdicts \cup {[fn |-> "is_word", ret |-> is_word(subject)]}
    /\ UNCHANGED <<lexer, outputs, pc, subject>>

apply_is_op_punc ==
    /\ verdicts' = verdicts \cup
           {[fn |-> "is_op_punc", ret |-> is_op_punc(subject)]}
    /\ UNCHANGED <<lexer, outputs, pc, subject>>

apply_is_boundary ==
    /\ verdicts' = verdicts \cup
           {[fn |-> "is_boundary", ret |-> is_boundary(subject)]}
    /\ UNCHANGED <<lexer, outputs, pc, subject>>

NextKinds ==
    \/ apply_is_whitespace
    \/ apply_is_word
    \/ apply_is_op_punc
    \/ apply_is_boundary

Spec == Init /\ [][Next]_vars

SpecOps == InitOps /\ [][Next]_vars

SpecWords == InitWords /\ [][Next]_vars

SpecStrings == InitStrings /\ [][Next]_vars

SpecErrors == InitErrors /\ [][Next]_vars

SpecLines == InitLines /\ [][Next]_vars

SpecNumbers == InitNumbers /\ [][Next]_vars

SpecProgress == InitProgress /\ [][Next]_vars

SpecKinds == InitKinds /\ [][NextKinds]_vars

\* A character class is applied to the subject, in the lexer's copy and in
\* the copy of util/text: both results join the verdicts.
apply_is_lower ==
    /\ verdicts' = verdicts \cup
           {[fn |-> "is_lower", copy |-> "lexer", ret |-> is_lower(subject)],
            [fn |-> "is_lower", copy |-> "text", ret |-> text_is_lower(subject)]}
    /\ UNCHANGED <<lexer, outputs, pc, subject>>

apply_is_upper ==
    /\ verdicts' = verdicts \cup
           {[fn |-> "is_upper", copy |-> "lexer", ret |-> is_upper(subject)],
            [fn |-> "is_upper", copy |-> "text", ret |-> text_is_upper(subject)]}
    /\ UNCHANGED <<lexer, outputs, pc, subject>>

apply_is_alpha ==
    /\ verdicts' = verdicts \cup
           {[fn |-> "is_alpha", copy |-> "lexer", ret |-> is_alpha(subject)],
            [fn |-> "is_alpha", copy |-> "text", ret |-> text_is_alpha(subject)]}
    /\ UNCHANGED <<lexer, outputs, pc, subject>>

apply_is_alphanum ==
    /\ verdicts' = verdicts \cup
           {[fn |-> "is_alphanum", copy |-> "lexer", ret |-> is_alphanum(subject)],
            [fn |-> "is_alphanum", copy |-> "text", ret |-> text_is_alphanum(subject)]}
    /\ UNCHANGED <<lexer, outputs, pc, subject>>

apply_is_digit ==
    /\ verdicts' = verdicts \cup
           {[fn |-> "is_digit", copy |-> "lexer", ret |-> is_digit(subject)],
            [fn |-> "is_digit", copy |-> "text", ret |-> text_is_digit(subject)]}
    /\ UNCHANGED <<lexer, outputs, pc, subject>>

apply_is_bin_digit ==
    /\ verdicts' = verdicts \cup
           {[fn |-> "is_bin_digit", copy |-> "lexer", ret |-> is_bin_digit(subject)],
            [fn |-> "is_bin_digit", copy |-> "text", ret |-> text_is_bin_digit(subject)]}
    /\ UNCHANGED <<lexer, outputs, pc, subject>>

apply_is_oct_digit ==
    /\ verdicts' = verdicts \cup
           {[fn |-> "is_oct_digit", copy |-> "lexer", ret |-> is_oct_digit(subject)],
            [fn |-> "is_oct_digit", copy |-> "text", ret |-> text_is_oct_digit(subject)]}
    /\ UNCHANGED <<lexer, outputs, pc, subject>>

apply_is_hex_digit ==
    /\ verdicts' = verdicts \cup
           {[fn |-> "is_hex_digit", copy |-> "lexer", ret |-> is_hex_digit(subject)],
            [fn |-> "is_hex_digit", copy |-> "text", ret |-> text_is_hex_digit(subject)]}
    /\ UNCHANGED <<lexer, outputs, pc, subject>>

NextChars ==
    \/ apply_is_lower
    \/ apply_is_upper
    \/ apply_is_alpha
    \/ apply_is_alphanum
    \/ apply_is_digit
    \/ apply_is_bin_digit
    \/ apply_is_oct_digit
    \/ apply_is_hex_digit

SpecChars == InitChars /\ [][NextChars]_vars

\* LexerEdition1::edition: `Edition::Edition1`.
edition1_edition ==
    /\ pc = "ready"
    /\ verdicts' = verdicts \cup {[fn |-> "edition", ret |-> "Edition1"]}
    /\ UNCHANGED <<lexer, outputs, pc, subject>>

\* LexerEdition1::next_token: `unimplemented!()` panics, whatever the
\* source; the call returns nothing.
edition1_next_token ==
    /\ pc = "ready"
    /\ pc' = "aborted"
    /\ UNCHANGED <<lexer, outputs, subject, verdicts>>

NextEdition1 ==
    \/ edition1_edition
    \/ edition1_next_token

SpecEdition1 == InitEdition1 /\ [][NextEdition1]_vars

(***************************************************************************)
(* Properties.                                                             *)
(***************************************************************************)
\* The texts of the outputs, one after the other.
RECURSIVE ConcatText(_)
ConcatText(outs) ==
    IF outs = <<>> THEN <<>> ELSE Head(outs).text \o ConcatText(Tail(outs))

\* The text of graphemes start .. end-1 of a source.
Slice(gs, start, end) == Bytes(SubSeq(gs, start + 1, end))

IsUnknown(o) == o.res = "Err" /\ o.kind = "UnknownSequence"

Last(outs) == outs[Len(outs)]

\* C1: the texts of the outputs emitted so far, concatenated in order, are
\* the source up to the cursor, and the whole source once the end of the
\* stream has been returned.
C1_Coverage ==
    /\ ConcatText(outputs) = Slice(lexer.source, 0, lexer.index)
    /\ pc = "end" => ConcatText(outputs) = Bytes(lexer.source)

\* C2: each output starts where the output before it ended.
C2_NonOverlap ==
    \A i \in 1..(Len(outputs) - 1) :
        outputs[i].span.end = outputs[i + 1].span.start

\* An error after the first grapheme was followed by a token.
C2_Witness ==
    /\ Len(outputs) >= 2
    /\ outputs[1].res = "Err"
    /\ outputs[1].span.end > 0
    /\ outputs[2].res = "Ok"

\* C3: every call returns, and the stream has at most |S| outputs.
C3_Terminates ==
    /\ pc # "diverged"
    /\ Len(outputs) <= Len(lexer.source)

\* C4: every output covers at least one grapheme, and the call that
\* returned it left the cursor at its end, so every returned output moved
\* the cursor forward.
C4_Progress ==
    /\ \A i \in 1..Len(outputs) : outputs[i].span.end > outputs[i].span.start
    /\ (pc = "ready" /\ outputs # <<>>) =>
           Last(outputs).span.end = lexer.index

\* A token, an UnknownSequence error that the coalescing loop carried over
\* two graphemes, an Invalid error and an Incomplete error were returned,
\* each since the start of the stream.
C4_Witness ==
    \E i, j, k, l \in 1..Len(outputs) :
        /\ outputs[i].res = "Ok"
        /\ IsUnknown(outputs[j])
        /\ outputs[j].span.end = outputs[j].span.start + 2
        /\ outputs[k].res = "Err" /\ outputs[k].kind = "Invalid"
        /\ outputs[l].res = "Err" /\ outputs[l].kind = "Incomplete"

\* C5: the text of every output is the source's graphemes span.start ..
\* span.end-1.
C5_GraphemeSpans ==
    \A i \in 1..Len(outputs) :
        outputs[i].text =
            Slice(lexer.source, outputs[i].span.start, outputs[i].span.end)

\* An output holding a grapheme of more than one byte starts after another
\* such grapheme, where byte and grapheme offsets differ.
C5_Witness ==
    \E i \in 1..Len(outputs) :
        /\ outputs[i].span.start > 0
        /\ Len(outputs[i].text) > outputs[i].span.end - outputs[i].span.start
        /\ Len(Slice(lexer.source, 0, outputs[i].span.start))
               > outputs[i].span.start

\* C6: no two consecutive outputs are both UnknownSequence errors.
C6_ErrorCoalescing ==
    \A i \in 1..(Len(outputs) - 1) :
        ~(IsUnknown(outputs[i]) /\ IsUnknown(outputs[i + 1]))

\* The operators that have a shorter operator as a proper prefix, each with
\* its kind.
LongOperators ==
    {<<(<<"&", "&">>), "AmpAmp">>, <<(<<"@", "@">>), "AtAt">>,
     <<(<<"@", "{">>), "AtBraceL">>, <<(<<"!", "=">>), "BangEq">>,
     <<(<<":", ":">>), "ColonColon">>, <<(<<"=", "=">>), "EqEq">>,
     <<(<<">", "=">>), "GtEq">>, <<(<<">", ">">>), "GtGt">>,
     <<(<<"<", "=">>), "LtEq">>, <<(<<"<", "<">>), "LtLt">>,
     <<(<<"<", "=", ">">>), "LtEqGt">>, <<(<<"|", "|">>), "PipePipe">>,
     <<(<<"?", "=">>), "QuestionEq">>, <<(<<"/", "/">>), "SlashSlash">>,
     <<(<<"*", "*">>), "StarStar">>}

\* The one token of the given kind over the whole of a source.
WholeToken(gs, kind) ==
    [res |-> "Ok", text |-> Bytes(gs), kind |-> kind,
     span |-> Span(0, Len(gs))]

\* C7: a source that is exactly a long operator yields one token of the long
\* kind over the whole source, and then the end of the stream.
C7_OperatorGreedy ==
    \A op \in LongOperators :
        lexer.source = op[1] =>
            /\ pc # "diverged"
            /\ outputs = <<>> => pc = "ready" /\ lexer.index = 0
            /\ outputs # <<>> => outputs = <<WholeToken(op[1], op[2])>>

\* A grapheme some production starts with: a blank, a newline, `#`, a letter
\* or underscore, a digit, a quote, or the first grapheme of an operator.
Recognized(g) ==
    \/ g \in {" ", "\t", "\n", "\r\n", "#", "\""}
    \/ is_alpha(g)
    \/ is_digit(g)
    \/ \E k \in 1..Len(ExactTable) : ExactTable[k][1][1] = g

\* The end of the run of unrecognized graphemes that starts at offset i.
RECURSIVE RunEnd(_, _)
RunEnd(gs, i) ==
    IF i < Len(gs) /\ ~Recognized(gs[i + 1]) THEN RunEnd(gs, i + 1) ELSE i

UnknownError(gs, start, end) ==
    [res |-> "Err", text |-> Slice(gs, start, end), kind |-> "UnknownSequence",
     span |-> Span(start, end), token_kind |-> None]

\* C8: a call at a grapheme no production starts with returns one
\* UnknownSequence error without a token kind over the maximal run of such
\* graphemes, and leaves the cursor at the end of the run.
C8_UnknownRun ==
    [][(pc = "ready" /\ peek(lexer) # None /\ ~Recognized(peek(lexer))) =>
          LET end == RunEnd(lexer.source, lexer.index)
          IN  /\ pc' = "ready"
              /\ outputs' = Append(outputs,
                     UnknownError(lexer.source, lexer.index, end))
              /\ lexer'.index = end]_vars

\* An output moved k graphemes to the right.
Shift(o, k) == [o EXCEPT !.span = Span(o.span.start + k, o.span.end + k)]

\* The source from grapheme offset i on.
Suffix(gs, i) == SubSeq(gs, i + 1, Len(gs))

\* C9: the call that follows an error does what the first call of a lexer
\* created on the rest of the source does: the same output, moved to the
\* cursor, the same end of the stream, or the same failure to return.
C9_NoRecoveryState ==
    [][(pc = "ready" /\ outputs # <<>> /\ Last(outputs).res = "Err") =>
          LET i == lexer.index
              r == lex_next(new(Suffix(lexer.source, i)), FALSE)
          IN  /\ (pc' = "diverged") = r.div
              /\ ~r.div =>
                    /\ (pc' = "end") = (r.ret.res = "None")
                    /\ lexer'.index = i + r.self.index
                    /\ outputs' = IF r.ret.res = "None" THEN outputs
                                  ELSE Append(outputs, Shift(r.ret, i))]_vars

\* An error was followed by another output, which starts at the cursor the
\* error left.
C9_Witness ==
    \E i \in 1..(Len(outputs) - 1) :
        /\ outputs[i].res = "Err"
        /\ outputs[i + 1].span.start = outputs[i].span.end
        /\ outputs[i + 1].span.start > 0

\* C10: a call returns the end of the stream exactly when the cursor is at
\* |S|, and then appends no output.
C10_AbsentIffEnd ==
    [][pc = "ready" =>
          /\ (lexer.index = Len(lexer.source)) = (pc' = "end")
          /\ pc' = "end" => outputs' = outputs /\ lexer' = lexer]_vars

\* The pattern stands in the source at grapheme offset i.
At(gs, i, pattern) ==
    /\ i + Len(pattern) <= Len(gs)
    /\ SubSeq(gs, i + 1, i + Len(pattern)) = pattern

\* The token of the given kind over graphemes start .. end-1 of a source.
TokenOver(gs, kind, start, end) ==
    [res |-> "Ok", text |-> Slice(gs, start, end), kind |-> kind,
     span |-> Span(start, end)]

\* The error of the given kinds over graphemes start .. end-1 of a source.
ErrorOver(gs, kind, token_kind, start, end) ==
    [res |-> "Err", text |-> Slice(gs, start, end), kind |-> kind,
     span |-> Span(start, end), token_kind |-> token_kind]

\* Where a nesting block comment ends: scanning from offset i at the given
\* depth, `#[[` deepens, `]]` closes one level, and the comment ends after
\* the `]]` that closes the last level; 0 when the input ends before that.
RECURSIVE NestEnd(_, _, _)
NestEnd(gs, i, depth) ==
    IF i >= Len(gs) THEN 0
    ELSE IF At(gs, i, <<"#", "[", "[">>) THEN NestEnd(gs, i + 3, depth + 1)
    ELSE IF At(gs, i, <<"]", "]">>)
    THEN IF depth = 1 THEN i + 2 ELSE NestEnd(gs, i + 2, depth - 1)
    ELSE NestEnd(gs, i + 1, depth)

\* C11: a call at `#[[` whose nesting is closed in the input returns one
\* CommentBlock token that ends after the `]]` returning the depth to zero,
\* every `#[[` inside having deepened the nesting.
C11_BlockNests ==
    [][(pc = "ready" /\ At(lexer.source, lexer.index, <<"#", "[", "[">>)
           /\ NestEnd(lexer.source, lexer.index + 3, 1) # 0) =>
          LET end == NestEnd(lexer.source, lexer.index + 3, 1)
          IN  /\ pc' = "ready"
              /\ outputs' = Append(outputs,
                     TokenOver(lexer.source, "CommentBlock", lexer.index, end))
              /\ lexer'.index = end]_vars

\* The flavor of the string that opens at offset i, by its longest opener;
\* None when no string opens there.
StringKindAt(gs, i) ==
    IF At(gs, i, <<"@", "\"", "\"", "\"">>) THEN "StringSmart"
    ELSE IF At(gs, i, <<"\"", "\"", "\"">>) THEN "StringMulti"
    ELSE IF At(gs, i, <<"\"">>) THEN "StringSingle"
    ELSE None

\* The number of graphemes of a flavor's opener.
OpenerLen(kind) ==
    IF kind = "StringSmart" THEN 4 ELSE IF kind = "StringMulti" THEN 3 ELSE 1

\* A flavor's closer.
Closer(kind) ==
    IF kind = "StringSingle" THEN <<"\"">> ELSE <<"\"", "\"", "\"">>

\* Where a string whose content starts at offset i ends when `\"` is
\* content: after the first closer that no escape has consumed; 0 when the
\* input ends before that.
RECURSIVE EscapedEnd(_, _, _)
EscapedEnd(gs, i, closer) ==
    IF i >= Len(gs) THEN 0
    ELSE IF At(gs, i, <<"\\", "\"">>) THEN EscapedEnd(gs, i + 2, closer)
    ELSE IF At(gs, i, closer) THEN i + Len(closer)
    ELSE EscapedEnd(gs, i + 1, closer)

\* C12: a call at a string's opener, the string being closed by a closer
\* that is not part of a `\"`, returns one token of the string's flavor that
\* ends after that closer: a backslash followed by a double quote inside the
\* string is content and closes nothing.
C12_EscapedQuote ==
    [][(pc = "ready" /\ StringKindAt(lexer.source, lexer.index) # None) =>
          LET kind == StringKindAt(lexer.source, lexer.index)
              end == EscapedEnd(lexer.source, lexer.index + OpenerLen(kind),
                                Closer(kind))
          IN  end # 0 =>
                  /\ pc' = "ready"
                  /\ outputs' = Append(outputs,
                         TokenOver(lexer.source, kind, lexer.index, end))
                  /\ lexer'.index = end]_vars

\* The grapheme at offset i of a source satisfies the predicate.
Holds(gs, i, pred) == i < Len(gs) /\ Pred(pred, gs[i + 1])

\* The offset after the underscores that stand at offset i.
RECURSIVE AfterUnderscores(_, _)
AfterUnderscores(gs, i) ==
    IF At(gs, i, <<"_">>) THEN AfterUnderscores(gs, i + 1) ELSE i

\* Where a number body that starts at offset i ends: digits of the radix,
\* with underscores only between digits.
RECURSIVE BodyEnd(_, _, _)
BodyEnd(gs, i, pred) ==
    IF Holds(gs, i, pred) THEN BodyEnd(gs, i + 1, pred)
    ELSE IF At(gs, i, <<"_">>) /\ Holds(gs, AfterUnderscores(gs, i), pred)
    THEN BodyEnd(gs, AfterUnderscores(gs, i), pred)
    ELSE i

\* A decimal number starts at offset i: a digit that is not the `0` of a
\* radix prefix.
DecimalAt(gs, i) ==
    /\ Holds(gs, i, "is_digit")
    /\ ~ \E p \in {"b", "o", "x"} : At(gs, i, <<"0", p>>)

\* C13: a call at a decimal number whose digits are followed by `.` and a
\* digit returns one output that starts at the number, includes the `.` and
\* the digit after it, and is a Float token (or an error for a Float); when
\* the `.` is not followed by a digit the call returns leaving the cursor at
\* the `.`.
C13_FloatFraction ==
    [][(pc = "ready" /\ DecimalAt(lexer.source, lexer.index)) =>
          LET dot == BodyEnd(lexer.source, lexer.index, "is_digit")
          IN  At(lexer.source, dot, <<".">>) =>
                  /\ pc' = "ready"
                  /\ Len(outputs') = Len(outputs) + 1
                  /\ Last(outputs').span.start = lexer.index
                  /\ IF Holds(lexer.source, dot + 1, "is_digit")
                     THEN /\ Last(outputs').span.end >= dot + 2
                          /\ IF Last(outputs').res = "Ok"
                             THEN Last(outputs').kind = "Float"
                             ELSE Last(outputs').token_kind = "Float"
                     ELSE /\ Last(outputs').span.end = dot
                          /\ lexer'.index = dot]_vars

NumericKinds == {"IntBin", "IntOct", "IntHex", "IntDec", "Float"}

\* C14: no numeric token's text ends in an underscore, and in none does an
\* underscore directly follow the radix prefix, so an underscore is only
\* ever between digits of a number body.
C14_UnderscoreInterior ==
    \A i \in 1..Len(outputs) :
        (outputs[i].res = "Ok" /\ outputs[i].kind \in NumericKinds) =>
            /\ Last(outputs[i].text) # Utf8("_")[1]
            /\ outputs[i].kind \in {"IntBin", "IntOct", "IntHex"} =>
                   outputs[i].text[3] # Utf8("_")[1]

\* The end of the run of name characters [a-zA-Z_0-9] that starts at offset
\* i.
RECURSIVE NameEnd(_, _)
NameEnd(gs, i) ==
    IF Holds(gs, i, "is_alphanum") THEN NameEnd(gs, i + 1) ELSE i

\* A `!` or `?` stands at offset i.
TrailerAt(gs, i) == At(gs, i, <<"!">>) \/ At(gs, i, <<"?">>)

\* C15: a call at an uppercase letter returns the NameUpper token over the
\* run of name characters that starts there, or, when a `!` or `?` follows
\* the run, one Invalid error for a NameUpper over the run and the trailer.
C15_NameUpper ==
    [][(pc = "ready" /\ is_upper(peek(lexer))) =>
          LET end == NameEnd(lexer.source, lexer.index)
          IN  /\ pc' = "ready"
              /\ IF TrailerAt(lexer.source, end)
                 THEN /\ outputs' = Append(outputs,
                             ErrorOver(lexer.source, "Invalid", "NameUpper",
                                       lexer.index, end + 1))
                      /\ lexer'.index = end + 1
                 ELSE /\ outputs' = Append(outputs,
                             TokenOver(lexer.source, "NameUpper",
                                       lexer.index, end))
                      /\ lexer'.index = end]_vars

\* C16: a call at a run of underscores that no name character follows
\* returns the NameUnderscore token when the run is a single `_`, and one
\* Invalid error for a NameUnderscore over the whole run when it is longer.
C16_NameUnderscore ==
    [][(pc = "ready" /\ peek(lexer) = "_"
           /\ ~Holds(lexer.source,
                     AfterUnderscores(lexer.source, lexer.index),
                     "is_alphanum")) =>
          LET end == AfterUnderscores(lexer.source, lexer.index)
          IN  /\ pc' = "ready"
              /\ lexer'.index = end
              /\ outputs' = Append(outputs,
                     IF end = lexer.index + 1
                     THEN TokenOver(lexer.source, "NameUnderscore",
                                    lexer.index, end)
                     ELSE ErrorOver(lexer.source, "Invalid", "NameUnderscore",
                                    lexer.index, end))]_vars

\* An uppercase letter stands among graphemes start .. end-1 of a source.
HasUpper(gs, start, end) == \E k \in (start + 1)..end : is_upper(gs[k])

\* The end of the name that starts at offset i: the run of name characters
\* and at most one trailer.
TrailedEnd(gs, i) ==
    IF TrailerAt(gs, NameEnd(gs, i)) THEN NameEnd(gs, i) + 1
    ELSE NameEnd(gs, i)

\* C17: a call at a lowercase letter consumes the maximal run of name
\* characters and at most one `!` or `?` after it, and returns the NameLower
\* token over that text when no uppercase letter is in it, and otherwise one
\* Invalid error for a NameLower over the same text; the source `foo bar`
\* yields NameLower `foo`, Space ` `, NameLower `bar`.
C17_NameLower ==
    /\ [][(pc = "ready" /\ is_lower(peek(lexer))) =>
             LET end == TrailedEnd(lexer.source, lexer.index)
             IN  /\ pc' = "ready"
                 /\ lexer'.index = end
                 /\ outputs' = Append(outputs,
                        IF HasUpper(lexer.source, lexer.index, end)
                        THEN ErrorOver(lexer.source, "Invalid", "NameLower",
                                       lexer.index, end)
                        ELSE TokenOver(lexer.source, "NameLower",
                                       lexer.index, end))]_vars
    /\ [](LET gs == <<"f", "o", "o", " ", "b", "a", "r">>
          IN  (lexer.source = gs /\ pc = "end") =>
                  outputs = <<TokenOver(gs, "NameLower", 0, 3),
                              TokenOver(gs, "Space", 3, 4),
                              TokenOver(gs, "NameLower", 4, 7)>>)

\* The radix prefixes: the letter after `0`, the digit set and the kind.
Radixes ==
    {<<"b", "is_bin_digit", "IntBin">>, <<"o", "is_oct_digit", "IntOct">>,
     <<"x", "is_hex_digit", "IntHex">>}

\* C18: a call at `0b`, `0o` or `0x` returns the IntBin, IntOct or IntHex
\* token over the prefix and the whole body of that radix's digits when the
\* body is not empty, and one Incomplete error for that kind over the two
\* graphemes of the prefix when it is.
C18_RadixIntegers ==
    [][\A radix \in Radixes :
          (pc = "ready" /\ At(lexer.source, lexer.index, <<"0", radix[1]>>)) =>
              LET end == BodyEnd(lexer.source, lexer.index + 2, radix[2])
              IN  /\ pc' = "ready"
                  /\ lexer'.index = end
                  /\ outputs' = Append(outputs,
                         IF end > lexer.index + 2
                         THEN TokenOver(lexer.source, radix[3],
                                        lexer.index, end)
                         ELSE ErrorOver(lexer.source, "Incomplete", radix[3],
                                        lexer.index, end))]_vars

\* Where the first closer at or after offset i ends; 0 when there is none.
RECURSIVE FirstCloser(_, _, _)
FirstCloser(gs, i, closer) ==
    IF i >= Len(gs) THEN 0
    ELSE IF At(gs, i, closer) THEN i + Len(closer)
    ELSE FirstCloser(gs, i + 1, closer)

\* C19: a call at a string opener returns an output of the flavor of the
\* longest opener there (`@"""` before `"""` before `"`, and before the `@`
\* operator): the token from the opener through the first closer of the
\* flavor after it (`"""` for StringSmart and StringMulti, `"` for
\* StringSingle), or an Incomplete error to the end of input when there is
\* no closer; the source `"""x"""` yields one StringMulti token.
C19_StringFlavors ==
    /\ [][(pc = "ready" /\ StringKindAt(lexer.source, lexer.index) # None) =>
             LET kind == StringKindAt(lexer.source, lexer.index)
                 end == FirstCloser(lexer.source,
                                    lexer.index + OpenerLen(kind),
                                    Closer(kind))
             IN  /\ pc' = "ready"
                 /\ IF end # 0
                    THEN /\ lexer'.index = end
                         /\ outputs' = Append(outputs,
                                TokenOver(lexer.source, kind,
                                          lexer.index, end))
                    ELSE /\ lexer'.index = Len(lexer.source)
                         /\ outputs' = Append(outputs,
                                ErrorOver(lexer.source, "Incomplete", kind,
                                          lexer.index, Len(lexer.source)))]_vars
    /\ [](LET gs == <<"\"", "\"", "\"", "x", "\"", "\"", "\"">>
          IN  (lexer.source = gs /\ pc = "end") =>
                  outputs = <<TokenOver(gs, "StringMulti", 0, 7)>>)

\* A newline, `\n` or `\r\n`, stands at offset i.
NewlineAt(gs, i) == At(gs, i, <<"\n">>) \/ At(gs, i, <<"\r\n">>)

\* The offset of the first newline at or after offset i, or the end of the
\* input.
RECURSIVE LineEnd(_, _)
LineEnd(gs, i) ==
    IF i >= Len(gs) \/ NewlineAt(gs, i) THEN i ELSE LineEnd(gs, i + 1)

\* C20: a call at a `#` that `[[` does not follow returns one CommentLine
\* token from the `#` up to the next newline, or up to the end of input when
\* there is none, and leaves the cursor there; a call at a newline returns
\* the NewLine token over it.
C20_CommentLine ==
    [][/\ (pc = "ready" /\ peek(lexer) = "#"
              /\ ~At(lexer.source, lexer.index, <<"#", "[", "[">>)) =>
             LET end == LineEnd(lexer.source, lexer.index)
             IN  /\ pc' = "ready"
                 /\ lexer'.index = end
                 /\ outputs' = Append(outputs,
                        TokenOver(lexer.source, "CommentLine",
                                  lexer.index, end))
       /\ (pc = "ready" /\ NewlineAt(lexer.source, lexer.index)) =>
             /\ pc' = "ready"
             /\ outputs' = Append(outputs,
                    TokenOver(lexer.source, "NewLine",
                              lexer.index, lexer.index + 1))]_vars

\* The kinds an Incomplete error can name.
IncompleteKinds ==
    {"CommentBlock", "StringSmart", "StringMulti", "StringSingle",
     "IntBin", "IntOct", "IntHex", "Float"}

\* The situation an Incomplete error for the given kind over graphemes
\* start .. end-1 of a source reports.
Truncated(gs, token_kind, start, end) ==
    CASE token_kind = "CommentBlock" ->
             /\ At(gs, start, <<"#", "[", "[">>)
             /\ end = Len(gs)
             /\ FirstCloser(gs, start + 3, <<"]", "]">>) = 0
      [] token_kind \in {"StringSmart", "StringMulti", "StringSingle"} ->
             /\ StringKindAt(gs, start) = token_kind
             /\ end = Len(gs)
             /\ FirstCloser(gs, start + OpenerLen(token_kind),
                            Closer(token_kind)) = 0
      [] token_kind \in {"IntBin", "IntOct", "IntHex"} ->
             \E radix \in Radixes :
                 /\ radix[3] = token_kind
                 /\ At(gs, start, <<"0", radix[1]>>)
                 /\ end = start + 2
                 /\ ~Holds(gs, end, radix[2])
      [] token_kind = "Float" ->
             /\ Holds(gs, start, "is_digit")
             /\ At(gs, end - 1, <<"e">>) \/ At(gs, end - 2, <<"e", "-">>)
             /\ ~Holds(gs, end, "is_digit")
      [] OTHER -> FALSE

\* C21: every Incomplete error names a block comment or a string that the
\* end of input cut short, a radix prefix with an empty body, or a float
\* exponent without digits, and its span runs from the construct's first
\* grapheme, where the call started, to the cursor the call left; no
\* Incomplete error names a name.
C21_IncompleteOnly ==
    /\ [](\A i \in 1..Len(outputs) :
              (outputs[i].res = "Err" /\ outputs[i].kind = "Incomplete") =>
                  /\ outputs[i].token_kind \in IncompleteKinds
                  /\ Truncated(lexer.source, outputs[i].token_kind,
                               outputs[i].span.start, outputs[i].span.end))
    /\ [][(Len(outputs') = Len(outputs) + 1
              /\ Last(outputs').res = "Err"
              /\ Last(outputs').kind = "Incomplete") =>
             Last(outputs').span = Span(lexer.index, lexer'.index)]_vars

\* C22: every NewLine token covers one grapheme of the source, which is `\n`
\* or the `\r\n` cluster, so it is one line break and never a run of them,
\* and never a `\r` that no `\n` follows.
C22_NewLineSingle ==
    \A i \in 1..Len(outputs) :
        (outputs[i].res = "Ok" /\ outputs[i].kind = "NewLine") =>
            /\ outputs[i].span.end = outputs[i].span.start + 1
            /\ lexer.source[outputs[i].span.end] \in {"\n", "\r\n"}
            /\ outputs[i].text \in {Utf8("\n"), Utf8("\r\n")}

\* The result a classifier gave for the subject, when it has been applied.
Accepted(fn) == [fn |-> fn, ret |-> TRUE] \in verdicts

\* C23: no token kind is accepted by two of is_whitespace, is_word and
\* is_op_punc.
C23_ClassifiersDisjoint ==
    /\ ~(Accepted("is_whitespace") /\ Accepted("is_word"))
    /\ ~(Accepted("is_whitespace") /\ Accepted("is_op_punc"))
    /\ ~(Accepted("is_word") /\ Accepted("is_op_punc"))

\* The result a classifier gave for the subject was false.
Rejected(fn) == [fn |-> fn, ret |-> FALSE] \in verdicts

\* The variants that are names.
WordKinds == {"Lower", "Upper", "Under", "Anon"}

\* The variants that are names, numbers and strings; the enumeration has no
\* comment variant.
ValueKinds ==
    WordKinds \cup
    {"Integer", "Float", "StringSingle", "StringMulti", "StringSmart"}

\* C24: is_whitespace accepts exactly Space and NewLine, is_word exactly
\* the four name kinds, is_op_punc every operator kind the dispatch of the
\* lexer emits (LtEqGt and Semicolon among them), each of which is a kind of
\* the enumeration, and no name, number, string or comment kind, and
\* is_boundary exactly what is_whitespace or is_op_punc accepts.
C24_ClassifierMembership ==
    /\ subject \in {"Space", "NewLine"} => ~Rejected("is_whitespace")
    /\ subject \notin {"Space", "NewLine"} => ~Accepted("is_whitespace")
    /\ subject \in WordKinds => ~Rejected("is_word")
    /\ subject \notin WordKinds => ~Accepted("is_word")
    /\ \A kind \in ExactKinds : kind \in TokenKind /\ is_op_punc(kind)
    /\ subject \in ExactKinds => ~Rejected("is_op_punc")
    /\ subject \in ValueKinds => ~Accepted("is_op_punc")
    /\ Accepted("is_boundary") =>
           ~(Rejected("is_whitespace") /\ Rejected("is_op_punc"))
    /\ Rejected("is_boundary") =>
           ~(Accepted("is_whitespace") \/ Accepted("is_op_punc"))

\* The code of a grapheme that is one ASCII character, and 0 for any other
\* grapheme.
AsciiCode(g) == IF Len(Utf8(g)) = 1 THEN Utf8(g)[1] ELSE 0

\* The ASCII codes of each character class: [a-z] is 97..122, [A-Z] is
\* 65..90, [0-9] is 48..57, `_` is 95.
ClassCodes(fn) ==
    CASE fn = "is_lower" -> 97..122
      [] fn = "is_upper" -> 65..90
      [] fn = "is_alpha" -> (97..122) \cup (65..90) \cup {95}
      [] fn = "is_alphanum" -> (97..122) \cup (65..90) \cup {95} \cup (48..57)
      [] fn = "is_digit" -> 48..57
      [] fn = "is_bin_digit" -> 48..49
      [] fn = "is_oct_digit" -> 48..55
      [] fn = "is_hex_digit" -> (48..57) \cup (97..102) \cup (65..70)

\* C25: each character class, in either copy, accepts a grapheme exactly
\* when it is one ASCII character of the class's set, so it rejects every
\* other printable ASCII, non-ASCII and multi-character grapheme, and the
\* two copies agree.
C25_CharClasses ==
    /\ \A v \in verdicts : v.ret = (AsciiCode(subject) \in ClassCodes(v.fn))
    /\ \A v, w \in verdicts : v.fn = w.fn => v.ret = w.ret

\* The eight classes have been applied in both copies to `F`, which four of
\* them accept.
C25_Witness ==
    /\ subject = "F"
    /\ Cardinality(verdicts) = 16
    /\ Cardinality({v \in verdicts : v.ret}) = 8

\* C26: on the edition-1 lexer no next_token call aborts, each returning a
\* token, an error or the end of the stream, and edition() returns Edition1,
\* which is Edition::latest().
C26_Edition1Lexer ==
    /\ pc # "aborted"
    /\ \A v \in verdicts :
           v.fn = "edition" => v.ret = "Edition1" /\ v.ret = latest

(***************************************************************************)
(* The scanning primitives called one at a time: mark, next, peek,         *)
(* take_while, expect and expect_one applied, in any order, to a lexer     *)
(* over a short source.  `verdicts` holds the last call and what it        *)
(* returned.                                                               *)
(***************************************************************************)
PrimAlphabet == {"a", "_", "0", "§", "\r\n"}

PrimSources == BoundedSeqs(PrimAlphabet, MaxPrimLen)

\* The patterns handed to expect.
Patterns ==
    {<<"a">>, <<"a", "a">>, <<"§", "a">>, <<"\r\n">>, <<"a", "_", "0">>}

\* The patterns handed to expect_one, each a set of graphemes.
OneOfs == {<<"_", "0">>, <<"§", "a">>}

\* The predicates handed to take_while.
PredTags ==
    {"is_underscore", "is_alphanum", "is_digit", "is_bin_digit",
     "is_oct_digit", "is_hex_digit"}

InitPrims ==
    /\ \E source \in PrimSources : lexer = new(source)
    /\ outputs = <<>>
    /\ pc = "ready"
    /\ Idle

call_mark ==
    /\ pc = "ready"
    /\ lexer' = mark(lexer)
    /\ verdicts' = {[fn |-> "mark"]}
    /\ UNCHANGED <<outputs, pc, subject>>

call_next ==
    /\ pc = "ready"
    /\ lexer' = next(lexer).self
    /\ verdicts' = {[fn |-> "next", ret |-> next(lexer).ret]}
    /\ UNCHANGED <<outputs, pc, subject>>

call_peek ==
    /\ pc = "ready"
    /\ verdicts' = {[fn |-> "peek", ret |-> peek(lexer)]}
    /\ UNCHANGED <<lexer, outputs, pc, subject>>

call_take_while(pred) ==
    /\ pc = "ready"
    /\ lexer' = take_while(lexer, pred).self
    /\ IF take_while(lexer, pred).div
       THEN /\ pc' = "diverged"
            /\ verdicts' = {[fn |-> "take_while", pred |-> pred]}
       ELSE /\ pc' = pc
            /\ verdicts' = {[fn |-> "take_while", pred |-> pred,
                             ret |-> take_while(lexer, pred).ret]}
    /\ UNCHANGED <<outputs, subject>>

call_expect(pattern) ==
    /\ pc = "ready"
    /\ lexer' = expect(lexer, pattern).self
    /\ verdicts' = {[fn |-> "expect", pattern |-> pattern,
                     ret |-> expect(lexer, pattern).ret]}
    /\ UNCHANGED <<outputs, pc, subject>>

call_expect_one(pattern) ==
    /\ pc = "ready"
    /\ lexer' = expect_one(lexer, pattern).self
    /\ verdicts' = {[fn |-> "expect_one", pattern |-> pattern,
                     ret |-> expect_one(lexer, pattern).ret]}
    /\ UNCHANGED <<outputs, pc, subject>>

NextPrims ==
    \/ call_mark
    \/ call_next
    \/ call_peek
    \/ \E pred \in PredTags : call_take_while(pred)
    \/ \E pattern \in Patterns : call_expect(pattern)
    \/ \E pattern \in OneOfs : call_expect_one(pattern)

SpecPrims == InitPrims /\ [][NextPrims]_vars

\* The offset of the first grapheme at or after offset i (0-based) of gs on
\* which pred fails, Len(gs) when there is none.
RECURSIVE TakeEnd(_, _, _)
TakeEnd(gs, i, pred) ==
    IF i < Len(gs) /\ Pred(pred, gs[i + 1])
    THEN TakeEnd(gs, i + 1, pred)
    ELSE i

\* C27: every call of take_while(pred) returns; it leaves the cursor on the
\* first grapheme at or after the old cursor on which pred fails (or at the
\* end of input), in graphemes and in bytes, leaves the mark alone, and
\* returns the number of graphemes it advanced past; afterwards the peeked
\* grapheme, if any, does not satisfy pred.
C27_TakeWhile ==
    [][\A pred \in PredTags :
           call_take_while(pred) =>
               LET end == TakeEnd(lexer.source, lexer.index, pred)
               IN  /\ pc' = "ready"
                   /\ lexer'.index = end
                   /\ lexer'.index_bytes =
                          Len(Bytes(SubSeq(lexer.source, 1, end)))
                   /\ lexer'.mark = lexer.mark
                   /\ lexer'.mark_bytes = lexer.mark_bytes
                   /\ verdicts' = {[fn |-> "take_while", pred |-> pred,
                                    ret |-> end - lexer.index]}
                   /\ (peek(lexer') = None \/ ~Pred(pred, peek(lexer')))]_vars

\* The graphemes of gs from offset i (0-based) on begin with pattern.
Begins(gs, i, pattern) ==
    /\ i + Len(pattern) <= Len(gs)
    /\ SubSeq(gs, i + 1, i + Len(pattern)) = pattern

\* The cursor of `after` is count graphemes, and their bytes, past the
\* cursor of `before`; the mark is where it was.
Advanced(before, after, count) ==
    /\ after.index = before.index + count
    /\ after.index_bytes =
           before.index_bytes
               + Len(Bytes(SubSeq(before.source, before.index + 1,
                                  before.index + count)))
    /\ after.mark = before.mark
    /\ after.mark_bytes = before.mark_bytes

\* C28: expect(pattern) returns true and advances by the graphemes of the
\* pattern, in grapheme and byte index, when the input at the cursor begins
\* with the pattern; otherwise (first grapheme wrong, a later one wrong, or
\* the input ends inside the pattern) it returns false with index,
\* index_bytes and mark unchanged.  expect_one(set) does the same for one
\* grapheme of the set.  peek changes none of them.
C28_ExpectAllOrNothing ==
    [][/\ \A pattern \in Patterns :
              call_expect(pattern) =>
                  IF Begins(lexer.source, lexer.index, pattern)
                  THEN /\ Advanced(lexer, lexer', Len(pattern))
                       /\ verdicts' = {[fn |-> "expect", pattern |-> pattern,
                                        ret |-> TRUE]}
                  ELSE /\ Advanced(lexer, lexer', 0)
                       /\ verdicts' = {[fn |-> "expect", pattern |-> pattern,
                                        ret |-> FALSE]}
       /\ \A pattern \in OneOfs :
              call_expect_one(pattern) =>
                  IF \E k \in 1..Len(pattern) :
                         Begins(lexer.source, lexer.index, <<pattern[k]>>)
                  THEN /\ Advanced(lexer, lexer', 1)
                       /\ verdicts' = {[fn |-> "expect_one",
                                        pattern |-> pattern, ret |-> TRUE]}
                  ELSE /\ Advanced(lexer, lexer', 0)
                       /\ verdicts' = {[fn |-> "expect_one",
                                        pattern |-> pattern, ret |-> FALSE]}
       /\ call_peek => Advanced(lexer, lexer', 0)]_vars

\* expect has refused a pattern whose first grapheme is at the cursor, the
\* input ending inside the pattern, after a two-byte grapheme was passed.
C28_Witness ==
    /\ verdicts = {[fn |-> "expect", pattern |-> <<"a", "_", "0">>,
                    ret |-> FALSE]}
    /\ peek(lexer) = "a"
    /\ lexer.index + 1 = Len(lexer.source)
    /\ lexer.index_bytes > lexer.index

\* The byte offset of the grapheme boundary i of gs.
ByteOffset(gs, i) == Len(Bytes(SubSeq(gs, 1, i)))

\* C30: in every state of the lexer the primitives can produce,
\* mark <= index <= the number of graphemes of the source, mark_bytes <=
\* index_bytes <= the byte length of the source, and mark_bytes and
\* index_bytes are the byte offsets of the grapheme boundaries mark and
\* index; so the span of the marked text has start <= end.
C30_CursorInvariant ==
    /\ lexer.mark <= lexer.index
    /\ lexer.index <= Len(lexer.source)
    /\ lexer.mark_bytes <= lexer.index_bytes
    /\ lexer.index_bytes <= Len(Bytes(lexer.source))
    /\ lexer.mark_bytes = ByteOffset(lexer.source, lexer.mark)
    /\ lexer.index_bytes = ByteOffset(lexer.source, lexer.index)
    /\ span(lexer).start <= span(lexer).end

\* The mark was set after a grapheme of two bytes and the cursor has moved
\* on from it, short of the end of the source.
C30_Witness ==
    /\ 0 < lexer.mark
    /\ lexer.mark < lexer.mark_bytes
    /\ lexer.mark < lexer.index
    /\ lexer.index < Len(lexer.source)

(***************************************************************************)
(* lex_next one production at a time: after `self.mark()` it tries         *)
(* lex_space, lex_newline, lex_comment, lex_name, lex_number, lex_string   *)
(* and each lex_exact of the table in turn, every `return_some!` either    *)
(* returning or falling through to the next.  `subject` is the number of   *)
(* the production tried next, the entries of the table counted on from 7.  *)
(***************************************************************************)
ProdAlphabet == {" ", "\n", "#", "a", "0", "\"", "&", "§"}

ProdSources == BoundedSeqs(ProdAlphabet, MaxProdLen)

\* lex_next has found input at some cursor of the source and marked it.
InitProductions ==
    /\ \E source \in ProdSources :
           \E start \in 0..Len(source) :
               /\ peek(advance(new(source), start)) # None
               /\ lexer = mark(advance(new(source), start))
    /\ outputs = <<>>
    /\ pc = "ready"
    /\ subject = 1
    /\ verdicts = {}

\* `return_some!(self.lex_space())` to `return_some!(self.lex_string())`.
try_production ==
    /\ pc = "ready"
    /\ subject <= 6
    /\ \E r \in {lex_production(lexer, subject)} :
       \E m \in {return_some_lex_production(r, subject)} :
           /\ lexer' = m.self
           /\ IF m.div
              THEN pc' = "diverged" /\ UNCHANGED <<outputs, subject>>
              ELSE IF m.returned
              THEN /\ pc' = "returned"
                   /\ outputs' = IF m.ret.res = "None" THEN outputs
                                 ELSE Append(outputs, m.ret)
                   /\ UNCHANGED subject
              ELSE /\ subject' = subject + 1
                   /\ UNCHANGED <<outputs, pc>>
    /\ UNCHANGED verdicts

\* `return_some!(self.lex_exact(pattern, kind))` for one entry of the table.
try_exact ==
    /\ pc = "ready"
    /\ 6 < subject
    /\ subject <= 6 + Len(ExactTable)
    /\ \E m \in {return_some_lex_exact(lexer, ExactTable[subject - 6][1],
                                      ExactTable[subject - 6][2])} :
           /\ lexer' = m.self
           /\ IF m.returned
              THEN /\ pc' = "returned"
                   /\ outputs' = IF m.ret.res = "None" THEN outputs
                                 ELSE Append(outputs, m.ret)
                   /\ UNCHANGED subject
              ELSE /\ subject' = subject + 1
                   /\ UNCHANGED <<outputs, pc>>
    /\ UNCHANGED verdicts

\* The branch after the last `return_some!`: the unknown-sequence error.
issue_unknown ==
    /\ pc = "ready"
    /\ subject = 7 + Len(ExactTable)
    /\ \E recursive \in BOOLEAN :
           \E r \in {lex_next_no_match(FellThrough(Ret(lexer, NoToken)),
                                      recursive)} :
               /\ lexer' = r.self
               /\ IF r.div
                  THEN pc' = "diverged" /\ UNCHANGED outputs
                  ELSE pc' = "returned" /\ outputs' = Append(outputs, r.ret)
    /\ UNCHANGED <<subject, verdicts>>

NextProductions ==
    \/ try_production
    \/ try_exact
    \/ issue_unknown

SpecProductions == InitProductions /\ [][NextProductions]_vars

\* C29: while lex_next is among its productions, every one tried so far
\* having reported no match, the cursor is at the mark, in graphemes and in
\* bytes, and the next grapheme read is the one at the mark; so the next
\* production, and the unknown-sequence branch, starts at the token's start.
C29_NoMatchAtMark ==
    pc = "ready" =>
        /\ lexer.index = lexer.mark
        /\ lexer.index_bytes = lexer.mark_bytes
        /\ peek(lexer) = lexer.source[lexer.mark + 1]

\* C31: every error output has one of the three error kinds, and its
\* token_kind is absent exactly when its kind is UnknownSequence: an
\* Incomplete or Invalid error carries a token kind, an UnknownSequence
\* error carries none.
C31_ErrorTokenKind ==
    \A i \in 1..Len(outputs) :
        outputs[i].res = "Err" =>
            /\ outputs[i].kind \in {"Incomplete", "Invalid", "UnknownSequence"}
            /\ outputs[i].token_kind = None
                   <=> outputs[i].kind = "UnknownSequence"

\* The lexer has issued an UnknownSequence error without a token kind and
\* an Incomplete or Invalid error with one.
C31_Witness ==
    /\ \E i \in 1..Len(outputs) :
           /\ outputs[i].res = "Err"
           /\ outputs[i].kind = "UnknownSequence"
           /\ outputs[i].token_kind = None
    /\ \E i \in 1..Len(outputs) :
           /\ outputs[i].res = "Err"
           /\ outputs[i].kind \in {"Incomplete", "Invalid"}
           /\ outputs[i].token_kind # None

(***************************************************************************)
(* Sources of blanks: spaces and tabs among a line break, an operator, a   *)
(* letter and a grapheme no production takes.                              *)
(***************************************************************************)
SpaceAlphabet == {" ", "\t", "\n", "&", "a", "§"}

SpaceSources == BoundedSeqs(SpaceAlphabet, MaxSpaceLen)

InitSpaces ==
    /\ \E source \in SpaceSources : lexer = new(source)
    /\ outputs = <<>>
    /\ pc = "ready"
    /\ Idle

SpecSpaces == InitSpaces /\ [][Next]_vars

IsSpace(output) == output.res = "Ok" /\ output.kind = "Space"

\* C32: a Space token covers at least one grapheme, every grapheme it covers
\* is a space or a tab, its text is those graphemes, the grapheme after it,
\* if any, is neither a space nor a tab, and the output after it, if any, is
\* not a Space token.
C32_SpaceMaximal ==
    \A i \in 1..Len(outputs) :
        IsSpace(outputs[i]) =>
            /\ outputs[i].span.start < outputs[i].span.end
            /\ \A k \in (outputs[i].span.start + 1)..outputs[i].span.end :
                   lexer.source[k] \in {" ", "\t"}
            /\ outputs[i].text =
                   Bytes(SubSeq(lexer.source, outputs[i].span.start + 1,
                                outputs[i].span.end))
            /\ outputs[i].span.end < Len(lexer.source) =>
                   lexer.source[outputs[i].span.end + 1] \notin {" ", "\t"}
            /\ i < Len(outputs) => ~IsSpace(outputs[i + 1])

(***************************************************************************)
(* Two lexers over one source, run concurrently.  Here `lexer`, `outputs`  *)
(* and `pc` hold one value for each instance, and a next_token call is     *)
(* taken in steps, the steps of the two instances interleaved: the call up *)
(* to the productions' return or to `let mut lexer = self.clone()`, each   *)
(* evaluation of the loop's condition on the clone, each `self.next()` of  *)
(* the loop's body, and the error after the loop.  `lexer[i].self` is the  *)
(* lexer the caller holds; `lexer[i].lexer` is the clone, a field only     *)
(* while the call is in the coalescing branch.                             *)
(***************************************************************************)
Instances == {1, 2}

PairAlphabet == {" ", "\n", "[", "a", "§"}

PairSources == BoundedSeqs(PairAlphabet, MaxPairLen)

InitPair ==
    /\ \E source \in PairSources :
           lexer = [i \in Instances |-> [self |-> new(source)]]
    /\ outputs = [i \in Instances |-> <<>>]
    /\ pc = [i \in Instances |-> "ready"]
    /\ Idle

\* What instance_next_token leaves, p being what the productions yielded
\* from the mark: their return, or the clone and the loop's condition next.
instance_lex_next(i, p) ==
    IF p.div
    THEN /\ pc' = [pc EXCEPT ![i] = "diverged"]
         /\ UNCHANGED <<lexer, outputs>>
    ELSE IF p.returned
    THEN /\ lexer' = [lexer EXCEPT ![i] = [self |-> p.self]]
         /\ outputs' =
                [outputs EXCEPT
                     ![i] = IF p.ret.res = "None" THEN @
                            ELSE Append(@, p.ret)]
         /\ pc' = [pc EXCEPT
                       ![i] = IF p.ret.res = "None" THEN "end" ELSE "ready"]
    ELSE /\ lexer' = [lexer EXCEPT ![i] = [self |-> p.self, lexer |-> p.self]]
         /\ pc' = [pc EXCEPT ![i] = "condition"]
         /\ UNCHANGED outputs

\* Iterator::next on instance i, up to the return of lex_next(false) or to
\* the clone of its coalescing branch.
instance_next_token(i) ==
    /\ pc[i] = "ready"
    /\ IF peek(lexer[i].self) = None
       THEN /\ pc' = [pc EXCEPT ![i] = "end"]
            /\ UNCHANGED <<lexer, outputs>>
       ELSE instance_lex_next(i, lex_productions(mark(lexer[i].self)))
    /\ UNCHANGED <<subject, verdicts>>

\* The loop's condition with `lexer` an alias of self instead of a clone:
\* what the recursive call does to the clone it does to self.
instance_coalesce_while_let_aliased(i, r) ==
    IF r.div
    THEN /\ pc' = [pc EXCEPT ![i] = "diverged"]
         /\ UNCHANGED <<lexer, outputs>>
    ELSE /\ lexer' = [lexer EXCEPT ![i] = [self |-> r.self, lexer |-> r.self]]
         /\ pc' = [pc EXCEPT ![i] = IF IsUnknown(r.ret) THEN "body"
                                    ELSE "exit"]
         /\ UNCHANGED outputs

\* What the loop's condition leaves, r being what `lexer.lex_next(true)`
\* yielded on the clone: the clone is where the call left it, self is as it
\* was, and the body is next when the pattern matched.
instance_coalesce_while_let(i, r) ==
    IF r.div
    THEN /\ pc' = [pc EXCEPT ![i] = "diverged"]
         /\ UNCHANGED <<lexer, outputs>>
    ELSE /\ lexer' = [lexer EXCEPT ![i].lexer = r.self]
         /\ pc' = [pc EXCEPT ![i] = IF IsUnknown(r.ret) THEN "body"
                                    ELSE "exit"]
         /\ UNCHANGED outputs

\* One evaluation of the condition of the coalescing loop of instance i.
instance_coalesce_condition(i) ==
    /\ pc[i] = "condition"
    /\ instance_coalesce_while_let(i, lex_next(lexer[i].lexer, TRUE))
    /\ UNCHANGED <<subject, verdicts>>

\* The body of the coalescing loop of instance i: `self.next()`.
instance_coalesce_body(i) ==
    /\ pc[i] = "body"
    /\ lexer' = [lexer EXCEPT ![i].self = next(@).self]
    /\ pc' = [pc EXCEPT ![i] = "condition"]
    /\ UNCHANGED <<outputs, subject, verdicts>>

\* The return after the coalescing loop of instance i: the error from self,
\* the clone going out of scope.
instance_coalesce_error(i) ==
    /\ pc[i] = "exit"
    /\ lexer' = [lexer EXCEPT ![i] = [self |-> lexer[i].self]]
    /\ outputs' =
           [outputs EXCEPT
                ![i] = Append(@, error(lexer[i].self, "UnknownSequence",
                                       None))]
    /\ pc' = [pc EXCEPT ![i] = "ready"]
    /\ UNCHANGED <<subject, verdicts>>

NextPair ==
    \E i \in Instances :
        \/ instance_next_token(i)
        \/ instance_coalesce_condition(i)
        \/ instance_coalesce_body(i)
        \/ instance_coalesce_error(i)

SpecPair == InitPair /\ [][NextPair]_vars

\* A lexer run alone from `self` for n next_token calls: the lexer it has
\* become and the outputs it has returned, an absent return adding none.
RECURSIVE Alone(_, _)
Alone(self, n) ==
    IF n = 0 THEN [lexer |-> self, outputs |-> <<>>]
    ELSE LET before == Alone(self, n - 1)
             r == lex_next(before.lexer, FALSE)
         IN  [lexer |-> r.self,
              outputs |-> IF r.ret.res = "None" THEN before.outputs
                          ELSE Append(before.outputs, r.ret)]

\* The next_token calls that have returned on instance i: one for each
\* output, and the one that returned absent.
Calls(i) == Len(outputs[i]) + (IF pc[i] = "end" THEN 1 ELSE 0)

\* Instance i against `alone`, a lexer run alone for the calls that have
\* returned on i.
SameAsAlone(i, alone) ==
    /\ outputs[i] = alone.outputs
    /\ pc[i] \in {"ready", "end"} => lexer[i] = [self |-> alone.lexer]
    /\ pc[i] \in {"condition", "body", "exit"} =>
           /\ lexer[i].self.mark = alone.lexer.index
           /\ lexer[i].self.index >= alone.lexer.index
           /\ lexer[i].self.index <= lexer[i].lexer.index
           /\ lexer[i].self.source = lexer[i].lexer.source

\* C33: with two lexers over the same source running concurrently, their
\* next_token calls interleaved step by step, each instance has returned
\* the outputs a lexer run alone over the source returns in as many calls,
\* and between calls it is the lexer that one has become (cursor, mark and
\* iterator).  Inside the coalescing branch the outputs returned so far are
\* still those, the mark is where the call set it, and the cursor is
\* between the mark and the clone's cursor: the recursive calls on the
\* clone move the clone and leave the lexer it was cloned from alone.
C33_InstancesIndependent ==
    \A i \in Instances :
        SameAsAlone(i, Alone(new(lexer[i].self.source), Calls(i)))

\* Over `§[[`, instance 1 is inside its first call, after the loop: its
\* clone has returned the unknown sequence and then read the token after
\* it, so the clone is at 3 with its mark at 1 while the lexer is at 1 with
\* its mark at 0.  Instance 2 has meanwhile returned both outputs and is
\* at 3.
C33_Witness ==
    /\ pc[1] = "exit"
    /\ outputs[1] = <<>>
    /\ lexer[1].self.index = 1
    /\ lexer[1].self.mark = 0
    /\ lexer[1].lexer.index = 3
    /\ lexer[1].lexer.mark = 1
    /\ pc[2] = "ready"
    /\ Len(outputs[2]) = 2
    /\ IsUnknown(outputs[2][1])
    /\ outputs[2][1].span = Span(0, 1)
    /\ outputs[2][2].res = "Ok"
    /\ outputs[2][2].span = Span(1, 3)
    /\ lexer[2].self.index = 3

====
